---------------------------- MODULE Spec2Model ----------------------------
(***************************************************************************)
(* State-machine model of gbd.js (gbooks-downloader 2.1.0): the script     *)
(* body (CONFIG construction), main(), ApiService and DownloaderService.   *)
(* One action per synchronous stretch of code between two awaits.          *)
(***************************************************************************)
EXTENDS Integers, Sequences, FiniteSets, TLC

(* ------------------------------ bounds -------------------------------- *)

\* longest manifest the provider returns in the model
MaxPages == 3

\* most page descriptors in one batch response
MaxBatch == 2

(* ------------------------- program constants --------------------------- *)

API_REQUEST_DELAY_MS == 50

DOWNLOAD_DELAY_MS == 200

(* --------------------------- value universes --------------------------- *)

\* a page descriptor without a (truthy) pid
NoPid == 0

\* page identifiers (opaque tokens; numbered so that manifests can be long)
Pids == 1..MaxPages

\* a page descriptor without a (truthy) src; also what Map.get gives for a
\* missing key (undefined): every falsy url value
NoSrc == ""

Urls == {"u1", "u2"}

\* URLSearchParams.get('id') gives null when the parameter is missing
NullId == "<null>"

BookIds == {NullId, "", "abc123"}

\* document.querySelector gives null when there is no title element
NoTitle == <<"<null>">>

\* innerText of the title element, as a sequence of characters
Titles == {<<"A", " ", " ", "B", ":", "c">>}

NoPrefix == <<>>

(* ------------------------- string conversions -------------------------- *)

RECURSIVE ToDigits(_)
\* String(n) for a non-negative integer: its decimal digits
ToDigits(n) ==
    IF n < 10 THEN <<n>> ELSE ToDigits(n \div 10) \o <<n % 10>>

RECURSIVE PadStart(_, _)
\* s.padStart(width, '0')
PadStart(s, width) ==
    IF Len(s) >= width THEN s ELSE PadStart(<<0>> \o s, width)

RECURSIVE FromDigits(_)
\* the number a digit string denotes
FromDigits(s) ==
    IF s = <<>> THEN 0 ELSE 10 * FromDigits(SubSeq(s, 1, Len(s) - 1)) + s[Len(s)]

RECURSIVE LexLess(_, _)
\* a < b for strings of digits, as JavaScript compares strings
LexLess(a, b) ==
    IF b = <<>> THEN FALSE
    ELSE IF a = <<>> THEN TRUE
    ELSE IF a[1] # b[1] THEN a[1] < b[1]
    ELSE LexLess(Tail(a), Tail(b))

IsSpace(c) == c = " "

InvalidChars == {"\\", "/", ":", "*", "?", "\"", "<", ">", "|"}

RECURSIVE ReplaceSpaces(_)
\* .replace(/\s+/g, '-'): every run of whitespace becomes one hyphen
ReplaceSpaces(s) ==
    IF s = <<>> THEN <<>>
    ELSE IF IsSpace(s[1])
         THEN IF Len(s) > 1 /\ IsSpace(s[2])
              THEN ReplaceSpaces(Tail(s))
              ELSE <<"-">> \o ReplaceSpaces(Tail(s))
         ELSE <<s[1]>> \o ReplaceSpaces(Tail(s))

\* .replace(/[\\/:*?"<>|]/g, '')
RemoveInvalid(s) == SelectSeq(s, LAMBDA c : c \notin InvalidChars)

\* getFilenamePrefix() when the title element exists
SanitizeTitle(t) == RemoveInvalid(ReplaceSpaces(t))

DefaultPrefix == <<"B", "o", "o", "k">>

(* ------------------------------- state --------------------------------- *)

VARIABLES
    titleElement,     \* the page's h1.gb-volume-title innerText, or NoTitle
    bookId,           \* CONFIG.BOOK_ID
    prefix,           \* CONFIG.FILENAME_PREFIX
    pc,               \* where the script is suspended / what it runs next
    allPids,          \* main: allPids
    signedUrlMap,     \* main: signedUrlMap
    i,                \* main: loop counter of the current for loop (0-based)
    downloadJobs,     \* main: downloadJobs
    failedDownloads,  \* main: failedDownloads
    inflight,         \* network requests issued and not yet settled
    timers,           \* pending setTimeout timers (their delays)
    trace,            \* history: requests issued and settled, in order
    skipped,          \* history: manifest positions the resolution loop skipped
    saved,            \* history: filenames handed to the browser's download click
    outcomes,         \* history: per attempted job, TRUE iff downloadFile returned
    failedCall,       \* history: the discovery call whose fetch failed or whose
                      \* response had no page list ("" if none)
    delaysWaited,     \* history: delays that elapsed, in order
    received,         \* history: the page list of the latest response, kept
                      \* until the delay that follows it has elapsed
    console           \* history: what the Logger reported (flags and summary)

vars ==
    << titleElement, bookId, prefix, pc, allPids, signedUrlMap, i, downloadJobs,
       failedDownloads, inflight, timers, trace, skipped, saved, outcomes,
       failedCall, delaysWaited, received, console >>

envVars == << titleElement, bookId >>

mainVars == << allPids, signedUrlMap, i, downloadJobs, failedDownloads >>

netVars == << inflight, timers, trace >>

histVars == << skipped, saved, outcomes, failedCall, delaysWaited, received >>

EmptyMap == [p \in {} |-> NoSrc]

NoConsole ==
    [ precondition |-> FALSE,   \* "Could not find Book ID in the URL"
      unresolved   |-> <<>>,    \* "Could only resolve URLs for x of n pages": <<x, n>>
      critical     |-> FALSE,   \* "A critical error occurred ..."
      summary      |-> <<>> ]   \* the Summary group: <<[total, success, failed]>>

\* mutation of Falsy: only null is tested for, not the empty string
FalsyNullOnly(v) == v = NullId

Falsy(v) == v \in {NullId, NoSrc}

(* ------------------------------ requests ------------------------------- *)

ManifestRequest == [kind |-> "manifest", pid |-> NoPid, url |-> NoSrc]

BatchRequest(pid) == [kind |-> "batch", pid |-> pid, url |-> NoSrc]

DownloadRequest(url) == [kind |-> "download", pid |-> NoPid, url |-> url]

Event(op, kind, pos) == [op |-> op, kind |-> kind, pos |-> pos, hit |-> FALSE]

\* a batch query settled; hit: the response held the queried page with a src
BatchDone(pos, hit) == [op |-> "done", kind |-> "batch", pos |-> pos, hit |-> hit]

Outstanding(kind) == {k \in 1..Len(inflight) : inflight[k].kind = kind}

\* the request of that kind that settles: the oldest one
Settle(kind) ==
    LET k == CHOOSE x \in Outstanding(kind) : \A y \in Outstanding(kind) : x <= y
    IN  SubSeq(inflight, 1, k - 1) \o SubSeq(inflight, k + 1, Len(inflight))

(* ------------------------- provider responses -------------------------- *)

\* how a fetch + json can end without a page list
FailureKinds == {"net_error", "http_error", "bad_json", "no_page"}

Failure(kind) == [kind |-> kind, page |-> <<>>]

Pages(page) == [kind |-> "pages", page |-> page]

SeqsUpTo(S, n) == UNION {[1..k -> S] : k \in 0..n}

Max(S) == IF S = {} THEN 0 ELSE CHOOSE x \in S : \A y \in S : y <= x

\* identifiers are opaque, so manifests are taken up to renaming: a new
\* identifier is always the smallest unused one
Canonical(m) ==
    \A k \in 1..Len(m) :
        m[k] # NoPid => m[k] <= 1 + Max({m[j] : j \in 1..(k - 1)})

ManifestPages ==
    {m \in SeqsUpTo(Pids \cup {NoPid}, MaxPages) : Canonical(m)}

ManifestResponses ==
    {Failure(k) : k \in FailureKinds}
        \cup {Pages([k \in 1..Len(m) |-> [pid |-> m[k]]]) : m \in ManifestPages}

\* the identifiers of the document's pages
ManifestPids == {allPids[k] : k \in 1..Len(allPids)}

\* page descriptors of a batch response: pages of this document, each with
\* or without a src, and a descriptor without a pid (the code reads nothing
\* else of a descriptor that has no pid, so one stands for all of them)
Descriptors ==
    [pid : ManifestPids \ {NoPid}, src : Urls \cup {NoSrc}]
        \cup {[pid |-> NoPid, src |-> "u1"]}

BatchResponses ==
    {Failure(k) : k \in FailureKinds}
        \cup {Pages(p) : p \in SeqsUpTo(Descriptors, MaxBatch)}

\* what a response gave for a page list: no OK response at all, a body
\* without a page list, an empty list, or a list with descriptors
ListShape(resp) ==
    IF resp.kind \in {"net_error", "http_error"} THEN "failed"
    ELSE IF resp.kind \in {"bad_json", "no_page"} THEN "absent"
    ELSE IF resp.page = <<>> THEN "empty" ELSE "nonempty"

\* the descriptors of a batch page list that lack a pid or a src
Unusable(page) ==
    {k \in 1..Len(page) : page[k].pid = NoPid \/ page[k].src = NoSrc}

NoneReceived == [from |-> "none", list |-> "none", ignored |-> 0]

ReceivedManifest(resp) ==
    [from |-> "manifest", list |-> ListShape(resp), ignored |-> 0]

ReceivedBatch(resp) ==
    [from |-> "batch", list |-> ListShape(resp),
     ignored |-> Cardinality(Unusable(resp.page))]

\* fetch(job.url) + blob(): ok, or one of the ways downloadFile throws
DownloadResponses == {"ok", "net_error", "http_error"}

(* ----------------------------- ApiService ------------------------------ *)

\* ApiService.getPageManifest on a response: throws, or returns the pids
GetPageManifest(resp) ==
    IF resp.kind # "pages" \/ Len(resp.page) = 0
    THEN [threw |-> TRUE, pids |-> <<>>]
    ELSE [threw |-> FALSE, pids |-> [k \in 1..Len(resp.page) |-> resp.page[k].pid]]

RECURSIVE UrlMapOf(_, _)

\* mutation of UrlMapOf: every descriptor is stored, usable or not
UrlMapOfUnchecked(page, urlMap) ==
    LET pids == {page[k].pid : k \in 1..Len(page)}
        last(p) == Max({k \in 1..Len(page) : page[k].pid = p})
    IN  [p \in DOMAIN urlMap \cup pids |->
            IF p \in pids THEN page[last(p)].src ELSE urlMap[p]]

\* the for loop of getPageBatch: urlMap.set for every usable descriptor
UrlMapOf(page, urlMap) ==
    IF page = <<>> THEN urlMap
    ELSE LET d == Head(page)
             next == IF d.src # NoSrc /\ d.pid # NoPid
                     THEN [p \in DOMAIN urlMap \cup {d.pid} |->
                              IF p = d.pid THEN d.src ELSE urlMap[p]]
                     ELSE urlMap
         IN  UrlMapOf(Tail(page), next)

\* mutation of GetPageBatch: an absent page list is read as an empty one
GetPageBatchLenient(resp) ==
    IF resp.kind \in {"net_error", "http_error", "bad_json"}
    THEN [threw |-> TRUE, urlMap |-> EmptyMap]
    ELSE [threw |-> FALSE, urlMap |-> UrlMapOf(resp.page, EmptyMap)]

\* mutation of GetPageBatch: an empty page list is rejected as the manifest's is
GetPageBatchStrict(resp) ==
    IF resp.kind # "pages" \/ resp.page = <<>>
    THEN [threw |-> TRUE, urlMap |-> EmptyMap]
    ELSE [threw |-> FALSE, urlMap |-> UrlMapOf(resp.page, EmptyMap)]

\* ApiService.getPageBatch on a response: throws, or returns the urlMap
GetPageBatch(resp) ==
    IF resp.kind # "pages"
    THEN [threw |-> TRUE, urlMap |-> EmptyMap]
    ELSE [threw |-> FALSE, urlMap |-> UrlMapOf(resp.page, EmptyMap)]

\* mutation of MapHas: the skip test is missing
MapHasNever(map, pid) == FALSE

\* signedUrlMap.has(pid)
MapHas(map, pid) == pid \in DOMAIN map

\* signedUrlMap.get(pid)
MapGet(map, pid) == IF pid \in DOMAIN map THEN map[pid] ELSE NoSrc

\* mutation of MergeBatch: the batch map replaces the mapping
MergeBatchReplace(map, batchMap) == batchMap

\* batchMap.forEach((url, pid) => signedUrlMap.set(pid, url))
MergeBatch(map, batchMap) ==
    [p \in DOMAIN map \cup DOMAIN batchMap |->
        IF p \in DOMAIN batchMap THEN batchMap[p] ELSE map[p]]

(* ----------------------------- job building ---------------------------- *)

\* mutation of Padding: the page number is not padded
PaddingOne(n) == 1

\* const padding = String(allPids.length).length
Padding(n) == Len(ToDigits(n))

\* String(i + 1).padStart(padding, '0'), pos = i + 1
PageNumber(pos, padding) == PadStart(ToDigits(pos), padding)

\* `${CONFIG.FILENAME_PREFIX}-${pageNumber}.png`
Filename(pfx, pageNumber) ==
    [prefix |-> pfx, pageNumber |-> pageNumber, ext |-> "png"]

\* the .map callback at manifest position pos = i + 1: no job (null) or one job
JobAt(pids, map, pfx, pos) ==
    LET url == MapGet(map, pids[pos])
    IN  IF Falsy(url) THEN <<>>
        ELSE << [url |-> url,
                 filename |-> Filename(pfx, PageNumber(pos, Padding(Len(pids))))] >>

\* .map(callback): per manifest position, no job or one job
MappedJobs(pids, map, pfx) == [k \in 1..Len(pids) |-> JobAt(pids, map, pfx, k)]

\* .filter(Boolean): the nulls are dropped, the order is kept
FilterJobs(mapped) ==
    LET kept == SelectSeq(mapped, LAMBDA m : m # <<>>)
    IN  [a \in 1..Len(kept) |-> kept[a][1]]

\* mutation of BuildJobList: pages are numbered by their index in the job
\* list (numbering after the filter)
BuildJobListRenumbered(pids, map, pfx) ==
    LET jobs == FilterJobs(MappedJobs(pids, map, pfx))
    IN  [a \in 1..Len(jobs) |->
            [jobs[a] EXCEPT !.filename.pageNumber = PageNumber(a, Padding(Len(pids)))]]

\* mutation of BuildJobList: the jobs are collected last page first
BuildJobListReversed(pids, map, pfx) ==
    LET jobs == FilterJobs(MappedJobs(pids, map, pfx))
    IN  [a \in 1..Len(jobs) |-> jobs[Len(jobs) + 1 - a]]

\* mutation of BuildJobList: an identifier seen at an earlier position gets
\* no second job
BuildJobListDeduplicated(pids, map, pfx) ==
    FilterJobs([k \in 1..Len(pids) |->
                  IF \E j \in 1..(k - 1) : pids[j] = pids[k]
                  THEN <<>> ELSE JobAt(pids, map, pfx, k)])

\* downloadJobs = allPids.map(...).filter(Boolean)
BuildJobList(pids, map, pfx) == FilterJobs(MappedJobs(pids, map, pfx))

\* mutation of PushFailed: the list is overwritten instead of extended
PushFailedOverwrite(failed, job) == <<job.filename>>

\* failedDownloads.push(job.filename)
PushFailed(failed, job) == Append(failed, job.filename)

\* a.download = filename; a.click()
SaveFile(files, job) == Append(files, job.filename)

\* mutation of SummaryOf: the failures are not subtracted
SummaryOfAllSucceeded(jobs, failed) ==
    [total |-> Len(jobs), success |-> Len(jobs), failed |-> failed]

\* the Summary group of main
SummaryOf(jobs, failed) ==
    [total |-> Len(jobs), success |-> Len(jobs) - Len(failed), failed |-> failed]

(* -------------------------------- Init --------------------------------- *)

Init ==
    /\ titleElement \in Titles \cup {NoTitle}
    /\ bookId \in BookIds
    /\ prefix = NoPrefix
    /\ pc = "script"
    /\ allPids = <<>>
    /\ signedUrlMap = EmptyMap
    /\ i = 0
    /\ downloadJobs = <<>>
    /\ failedDownloads = <<>>
    /\ inflight = <<>>
    /\ timers = <<>>
    /\ trace = <<>>
    /\ skipped = {}
    /\ saved = <<>>
    /\ outcomes = <<>>
    /\ failedCall = ""
    /\ delaysWaited = <<>>
    /\ received = NoneReceived
    /\ console = NoConsole

(* ------------------------------- actions ------------------------------- *)

\* the script body: CONFIG is built (getFilenamePrefix runs before the
\* const Logger declaration has been evaluated), then main() is called
Setup ==
    /\ pc = "script"
    /\ IF titleElement = NoTitle
       THEN \* Logger.warn in getFilenamePrefix: ReferenceError, the script dies
            /\ pc' = "crashed"
            /\ prefix' = prefix
       ELSE /\ pc' = "main"
            /\ prefix' = SanitizeTitle(titleElement)
    /\ UNCHANGED << envVars, mainVars, netVars, histVars, console >>

\* main up to its first await: the BOOK_ID check, then the manifest fetch
MainStart ==
    /\ pc = "main"
    /\ IF Falsy(bookId)
       THEN /\ pc' = "stopped"
            /\ console' = [console EXCEPT !.precondition = TRUE]
            /\ UNCHANGED netVars
       ELSE /\ pc' = "manifest_wait"
            /\ inflight' = Append(inflight, ManifestRequest)
            /\ trace' = Append(trace, Event("issue", "manifest", 0))
            /\ UNCHANGED << timers, console >>
    /\ UNCHANGED << envVars, prefix, mainVars, histVars >>

\* the manifest response arrives: getPageManifest returns or throws
ManifestResponse ==
    /\ pc = "manifest_wait"
    /\ Outstanding("manifest") # {}
    /\ \E resp \in ManifestResponses :
        LET r == GetPageManifest(resp)
        IN  /\ inflight' = Settle("manifest")
            /\ trace' = Append(trace, Event("done", "manifest", 0))
            /\ failedCall' = IF resp.kind \in FailureKinds THEN "manifest" ELSE failedCall
            /\ received' = ReceivedManifest(resp)
            /\ IF r.threw
               THEN /\ pc' = "aborted"
                    /\ console' = [console EXCEPT !.critical = TRUE]
                    /\ UNCHANGED << allPids, signedUrlMap, i >>
               ELSE /\ pc' = "resolve"
                    /\ allPids' = r.pids
                    /\ signedUrlMap' = EmptyMap
                    /\ i' = 0
                    /\ UNCHANGED console
    /\ UNCHANGED << envVars, prefix, downloadJobs, failedDownloads, timers,
                    skipped, saved, outcomes, delaysWaited >>

\* mutation of ResolveSkip: the delay sits before the skip test, so a skipped
\* identifier waits for it too
ResolveSkipDelayed ==
    /\ pc = "resolve"
    /\ i < Len(allPids)
    /\ MapHas(signedUrlMap, allPids[i + 1])
    /\ i' = i + 1
    /\ skipped' = skipped \cup {i + 1}
    /\ delaysWaited' = Append(delaysWaited, API_REQUEST_DELAY_MS)
    /\ UNCHANGED << envVars, prefix, pc, allPids, signedUrlMap, downloadJobs,
                    failedDownloads, netVars, saved, outcomes, failedCall,
                    received, console >>

\* loop head, pid already resolved: continue
ResolveSkip ==
    /\ pc = "resolve"
    /\ i < Len(allPids)
    /\ MapHas(signedUrlMap, allPids[i + 1])
    /\ i' = i + 1
    /\ skipped' = skipped \cup {i + 1}
    /\ UNCHANGED << envVars, prefix, pc, allPids, signedUrlMap, downloadJobs,
                    failedDownloads, netVars, saved, outcomes, failedCall,
                    delaysWaited, received, console >>

\* loop head, pid not resolved: getPageBatch(pid) issues its fetch
ResolveQuery ==
    /\ pc = "resolve"
    /\ i < Len(allPids)
    /\ ~MapHas(signedUrlMap, allPids[i + 1])
    /\ inflight' = Append(inflight, BatchRequest(allPids[i + 1]))
    /\ trace' = Append(trace, Event("issue", "batch", i + 1))
    /\ pc' = "batch_wait"
    /\ UNCHANGED << envVars, prefix, mainVars, timers, histVars, console >>

\* mutation of BatchResponse: the API delay timer is started but not awaited
BatchResponseNoDelayAwait ==
    /\ pc = "batch_wait"
    /\ Outstanding("batch") # {}
    /\ \E resp \in BatchResponses :
        LET r == GetPageBatch(resp)
        IN  /\ inflight' = Settle("batch")
            /\ trace' = Append(trace, BatchDone(i + 1, allPids[i + 1] \in DOMAIN r.urlMap))
            /\ failedCall' = IF resp.kind \in FailureKinds THEN "batch" ELSE failedCall
            /\ received' = ReceivedBatch(resp)
            /\ IF r.threw
               THEN /\ pc' = "aborted"
                    /\ console' = [console EXCEPT !.critical = TRUE]
                    /\ UNCHANGED << signedUrlMap, timers, i >>
               ELSE /\ pc' = "resolve"
                    /\ i' = i + 1
                    /\ signedUrlMap' = MergeBatch(signedUrlMap, r.urlMap)
                    /\ timers' = Append(timers, API_REQUEST_DELAY_MS)
                    /\ UNCHANGED console
    /\ UNCHANGED << envVars, prefix, allPids, downloadJobs, failedDownloads,
                    skipped, saved, outcomes, delaysWaited >>

\* the batch response arrives: getPageBatch throws, or its map is merged and
\* the API delay timer is started
BatchResponse ==
    /\ pc = "batch_wait"
    /\ Outstanding("batch") # {}
    /\ \E resp \in BatchResponses :
        LET r == GetPageBatch(resp)
        IN  /\ inflight' = Settle("batch")
            /\ trace' = Append(trace, BatchDone(i + 1, allPids[i + 1] \in DOMAIN r.urlMap))
            /\ failedCall' = IF resp.kind \in FailureKinds THEN "batch" ELSE failedCall
            /\ received' = ReceivedBatch(resp)
            /\ IF r.threw
               THEN /\ pc' = "aborted"
                    /\ console' = [console EXCEPT !.critical = TRUE]
                    /\ UNCHANGED << signedUrlMap, timers >>
               ELSE /\ pc' = "api_delay"
                    /\ signedUrlMap' = MergeBatch(signedUrlMap, r.urlMap)
                    /\ timers' = Append(timers, API_REQUEST_DELAY_MS)
                    /\ UNCHANGED console
    /\ UNCHANGED << envVars, prefix, allPids, i, downloadJobs, failedDownloads,
                    skipped, saved, outcomes, delaysWaited >>

\* the API delay elapses: i++
ApiDelayElapsed ==
    /\ pc = "api_delay"
    /\ timers # <<>>
    /\ timers' = Tail(timers)
    /\ delaysWaited' = Append(delaysWaited, Head(timers))
    /\ received' = NoneReceived
    /\ i' = i + 1
    /\ pc' = "resolve"
    /\ UNCHANGED << envVars, prefix, allPids, signedUrlMap, downloadJobs,
                    failedDownloads, inflight, trace, skipped, saved, outcomes,
                    failedCall, console >>

\* the resolution loop ends
ResolveDone ==
    /\ pc = "resolve"
    /\ i >= Len(allPids)
    /\ pc' = "build"
    /\ UNCHANGED << envVars, prefix, mainVars, netVars, histVars, console >>

\* mutation of BuildJobs: the warning compares the size of the mapping, not
\* the number of jobs, with the manifest length
BuildJobsWarnOnMapSize ==
    /\ pc = "build"
    /\ downloadJobs' = BuildJobList(allPids, signedUrlMap, prefix)
    /\ console' =
         IF Cardinality(DOMAIN signedUrlMap) # Len(allPids)
         THEN [console EXCEPT !.unresolved = <<Len(downloadJobs'), Len(allPids)>>]
         ELSE console
    /\ failedDownloads' = <<>>
    /\ i' = 0
    /\ pc' = "retrieve"
    /\ UNCHANGED << envVars, prefix, allPids, signedUrlMap, netVars, histVars >>

\* padding, downloadJobs, the unresolved warning, failedDownloads = []
BuildJobs ==
    /\ pc = "build"
    /\ downloadJobs' = BuildJobList(allPids, signedUrlMap, prefix)
    /\ console' =
         IF Len(downloadJobs') # Len(allPids)
         THEN [console EXCEPT !.unresolved = <<Len(downloadJobs'), Len(allPids)>>]
         ELSE console
    /\ failedDownloads' = <<>>
    /\ i' = 0
    /\ pc' = "retrieve"
    /\ UNCHANGED << envVars, prefix, allPids, signedUrlMap, netVars, histVars >>

\* download loop head: downloadFile(job) issues its fetch
DownloadStart ==
    /\ pc = "retrieve"
    /\ i < Len(downloadJobs)
    /\ inflight' = Append(inflight, DownloadRequest(downloadJobs[i + 1].url))
    /\ trace' = Append(trace, Event("issue", "download", i + 1))
    /\ pc' = "download_wait"
    /\ UNCHANGED << envVars, prefix, mainVars, timers, histVars, console >>

\* mutation of DownloadResponse: no try/catch around downloadFile, the error
\* reaches the outer catch
DownloadResponseNoCatch ==
    /\ pc = "download_wait"
    /\ Outstanding("download") # {}
    /\ \E resp \in DownloadResponses :
        /\ inflight' = Settle("download")
        /\ trace' = Append(trace, Event("done", "download", i + 1))
        /\ outcomes' = Append(outcomes, resp = "ok")
        /\ IF resp = "ok"
           THEN /\ saved' = SaveFile(saved, downloadJobs[i + 1])
                /\ timers' = Append(timers, DOWNLOAD_DELAY_MS)
                /\ pc' = "download_delay"
                /\ UNCHANGED console
           ELSE /\ pc' = "aborted"
                /\ console' = [console EXCEPT !.critical = TRUE]
                /\ UNCHANGED << saved, timers >>
    /\ UNCHANGED << envVars, prefix, allPids, signedUrlMap, i, downloadJobs,
                    failedDownloads, skipped, failedCall, delaysWaited, received >>

\* mutation of DownloadResponse: the catch block continues with the next job
\* at once, without the delay
DownloadResponseNoDelayOnFail ==
    /\ pc = "download_wait"
    /\ Outstanding("download") # {}
    /\ \E resp \in DownloadResponses :
        /\ inflight' = Settle("download")
        /\ trace' = Append(trace, Event("done", "download", i + 1))
        /\ outcomes' = Append(outcomes, resp = "ok")
        /\ IF resp = "ok"
           THEN /\ saved' = SaveFile(saved, downloadJobs[i + 1])
                /\ timers' = Append(timers, DOWNLOAD_DELAY_MS)
                /\ pc' = "download_delay"
                /\ UNCHANGED << failedDownloads, i >>
           ELSE /\ failedDownloads' = PushFailed(failedDownloads, downloadJobs[i + 1])
                /\ i' = i + 1
                /\ pc' = "retrieve"
                /\ UNCHANGED << saved, timers >>
    /\ UNCHANGED << envVars, prefix, allPids, signedUrlMap, downloadJobs,
                    skipped, failedCall, delaysWaited, received, console >>

\* the image response arrives: downloadFile saves the file, or throws and the
\* catch records the filename; then the download delay timer is started
DownloadResponse ==
    /\ pc = "download_wait"
    /\ Outstanding("download") # {}
    /\ \E resp \in DownloadResponses :
        /\ inflight' = Settle("download")
        /\ trace' = Append(trace, Event("done", "download", i + 1))
        /\ outcomes' = Append(outcomes, resp = "ok")
        /\ IF resp = "ok"
           THEN /\ saved' = SaveFile(saved, downloadJobs[i + 1])
                /\ UNCHANGED failedDownloads
           ELSE /\ failedDownloads' = PushFailed(failedDownloads, downloadJobs[i + 1])
                /\ UNCHANGED saved
        /\ timers' = Append(timers, DOWNLOAD_DELAY_MS)
        /\ pc' = "download_delay"
    /\ UNCHANGED << envVars, prefix, allPids, signedUrlMap, i, downloadJobs,
                    skipped, failedCall, delaysWaited, received, console >>

\* the download delay elapses: i++
DownloadDelayElapsed ==
    /\ pc = "download_delay"
    /\ timers # <<>>
    /\ timers' = Tail(timers)
    /\ delaysWaited' = Append(delaysWaited, Head(timers))
    /\ i' = i + 1
    /\ pc' = "retrieve"
    /\ UNCHANGED << envVars, prefix, allPids, signedUrlMap, downloadJobs,
                    failedDownloads, inflight, trace, skipped, saved, outcomes,
                    failedCall, received, console >>

\* the download loop ends: the Summary group is logged
Summary ==
    /\ pc = "retrieve"
    /\ i >= Len(downloadJobs)
    /\ console' = [console EXCEPT
                     !.summary = <<SummaryOf(downloadJobs, failedDownloads)>>]
    /\ pc' = "summary"
    /\ UNCHANGED << envVars, prefix, mainVars, netVars, histVars >>

Next ==
    \/ Setup
    \/ MainStart
    \/ ManifestResponse
    \/ ResolveSkip
    \/ ResolveQuery
    \/ BatchResponse
    \/ ApiDelayElapsed
    \/ ResolveDone
    \/ BuildJobs
    \/ DownloadStart
    \/ DownloadResponse
    \/ DownloadDelayElapsed
    \/ Summary

Spec == Init /\ [][Next]_vars


\* the retrieval loop under the event loop: main runs on when it can, every
\* image response eventually arrives and every download delay timer fires
RetrievalFairSpec ==
    /\ Spec
    /\ WF_vars(DownloadStart)
    /\ WF_vars(DownloadResponse)
    /\ WF_vars(DownloadDelayElapsed)
    /\ WF_vars(Summary)

(* ------------------- the job builder on long manifests ------------------ *)

\* manifest lengths at which the padding width is exercised
BuilderLengths == {1, 9, 10, 12, 99, 100, 150}

\* gap patterns: with gap g > 0 every g-th page never resolves
BuilderGaps == {0, 1, 2, 3, 4, 5, 6, 7, 10, 11}

Unresolved(n, g) == {k \in 1..n : g > 0 /\ k % g = 0}

\* the requests of a resolution phase over n distinct identifiers, none
\* resolved ahead of its own query
ResolutionTrace(n, g) ==
    [x \in 1..(2 * n + 2) |->
        IF x = 1 THEN Event("issue", "manifest", 0)
        ELSE IF x = 2 THEN Event("done", "manifest", 0)
        ELSE IF x % 2 = 1 THEN Event("issue", "batch", (x - 1) \div 2)
        ELSE BatchDone((x - 1) \div 2, (x - 1) \div 2 \notin Unresolved(n, g))]

\* main at the end of the resolution loop, for a document of n pages whose
\* batch responses each held the queried page alone, or nothing
BuilderInit ==
    \E n \in BuilderLengths, g \in BuilderGaps, t \in Titles :
        /\ titleElement = t
        /\ bookId = "abc123"
        /\ prefix = SanitizeTitle(t)
        /\ pc = "build"
        /\ allPids = [k \in 1..n |-> k]
        /\ signedUrlMap = [p \in (1..n) \ Unresolved(n, g) |-> "u1"]
        /\ i = n
        /\ downloadJobs = <<>>
        /\ failedDownloads = <<>>
        /\ inflight = <<>>
        /\ timers = <<>>
        /\ trace = ResolutionTrace(n, g)
        /\ skipped = {}
        /\ saved = <<>>
        /\ outcomes = <<>>
        /\ failedCall = ""
        /\ delaysWaited = [k \in 1..n |-> API_REQUEST_DELAY_MS]
        /\ received = NoneReceived
        /\ console = NoConsole

BuilderNext == BuildJobs

BuilderSpec == BuilderInit /\ [][BuilderNext]_vars

(* ------------------------ notions used by claims ------------------------ *)

Range(s) == {s[k] : k \in 1..Len(s)}

\* the trace indexes of the events of one kind and operation
EventsOf(op, kind) ==
    {x \in 1..Len(trace) : trace[x].op = op /\ trace[x].kind = kind}

\* the request an action has just issued, if it issued one
Issues(kind) ==
    /\ Len(inflight') = Len(inflight) + 1
    /\ inflight'[Len(inflight')].kind = kind

(* ------------------------------- C1 ------------------------------------- *)

\* C1: idempotent skip. Whenever the resolution loop issues a batch query,
\* the queried identifier is not a key of the URL mapping at that moment.
C1_IdempotentSkip ==
    [][Issues("batch") => inflight'[Len(inflight')].pid \notin DOMAIN signedUrlMap]_vars

\* scenario A of the spec: three pages, the second resolved by the first
\* query and skipped, the third queried
C1_Witness ==
    /\ pc = "batch_wait"
    /\ Len(allPids) = 3
    /\ skipped = {2}
    /\ DOMAIN signedUrlMap = {allPids[1], allPids[2]}
    /\ inflight = <<BatchRequest(allPids[3])>>

(* ------------------------------- C2 ------------------------------------- *)

\* C2: first resolution wins. Once an identifier is a key of the URL mapping
\* its URL never changes afterwards.
C2_FirstResolutionWins ==
    [][\A p \in DOMAIN signedUrlMap :
          p \in DOMAIN signedUrlMap' /\ signedUrlMap'[p] = signedUrlMap[p]]_vars

(* ------------------------------- C3 ------------------------------------- *)

\* C3: fail-fast discovery. If the manifest fetch or a batch query failed
\* (fetch error, non-OK status, unparsable body or absent page list), the
\* run is ABORTED: no download was ever started, no file saved, no summary.
C3_FailFastDiscovery ==
    failedCall # "" =>
        /\ pc = "aborted"
        /\ console.critical
        /\ EventsOf("issue", "download") = {}
        /\ saved = <<>>
        /\ console.summary = <<>>

\* the last batch query fails after earlier identifiers were resolved
C3_Witness ==
    /\ pc = "aborted"
    /\ failedCall = "batch"
    /\ Len(allPids) = 3
    /\ i = 2
    /\ DOMAIN signedUrlMap = {allPids[1], allPids[2]}

(* ------------------------------- C4 ------------------------------------- *)

\* the job-list indexes at which a download was started, in order
Attempted ==
    LET idx == SelectSeq([x \in 1..Len(trace) |-> x],
                         LAMBDA x : trace[x].op = "issue" /\ trace[x].kind = "download")
    IN  [a \in 1..Len(idx) |-> trace[idx[a]].pos]

\* C4: fail-soft retrieval. Jobs are attempted in job-list order, each once;
\* at SUMMARY all M jobs have been attempted whichever of them failed; a
\* failed download never aborts the run; and a run that entered the
\* retrieval loop reaches SUMMARY.
C4_FailSoftRetrieval ==
    /\ [](/\ Attempted = [a \in 1..Len(Attempted) |-> a]
          /\ Len(Attempted) <= Len(downloadJobs)
          /\ (pc = "summary" => Len(Attempted) = Len(downloadJobs))
          /\ (outcomes # <<>> => pc # "aborted" /\ ~console.critical))
    /\ (pc = "retrieve" ~> pc = "summary")

\* three jobs, the first and the last failed, the run is at SUMMARY
C4_Witness ==
    /\ pc = "summary"
    /\ Len(downloadJobs) = 3
    /\ outcomes = <<FALSE, TRUE, FALSE>>

(* ------------------------------- C5 ------------------------------------- *)

\* the filenames of the attempted jobs whose downloadFile threw, in order
FailedFilenames ==
    LET idx == SelectSeq([a \in 1..Len(outcomes) |-> a], LAMBDA a : ~outcomes[a])
    IN  [x \in 1..Len(idx) |-> downloadJobs[idx[x]].filename]

\* C5: tally. At SUMMARY, with M jobs: the reported success count plus the
\* number of listed failures is M, the reported total is M, the success
\* count is the number of downloads that returned, and the failed list is
\* exactly the filenames of the failed jobs, one entry each.
C5_Tally ==
    pc = "summary" =>
        LET s == console.summary[1]
            M == Len(downloadJobs)
        IN  /\ s.success + Len(s.failed) = M
            /\ s.total = M
            /\ Len(outcomes) = M
            /\ s.success = Cardinality({a \in 1..M : outcomes[a]})
            /\ s.failed = FailedFilenames

\* three jobs of which two failed
C5_Witness ==
    /\ pc = "summary"
    /\ Len(downloadJobs) = 3
    /\ console.summary[1].success = 1
    /\ Len(console.summary[1].failed) = 2

(* ------------------------------- C6 ------------------------------------- *)

\* the output filename of manifest position pos
OutputFilename(pos) ==
    [prefix |-> prefix,
     pageNumber |-> PadStart(ToDigits(pos), Len(ToDigits(Len(allPids)))),
     ext |-> "png"]

\* manifest positions whose identifier has no URL when the jobs are built
UnresolvedPositions ==
    {k \in 1..Len(allPids) : allPids[k] \notin DOMAIN signedUrlMap}

\* C6 as stated: at SUMMARY, the output filename of a manifest position is
\* missing from the saved files iff the summary's failed list names it.
C6_SummaryNamesEveryMissingFile ==
    pc = "summary" =>
        \A k \in 1..Len(allPids) :
            OutputFilename(k) \notin Range(saved)
                <=> OutputFilename(k) \in Range(console.summary[1].failed)

\* C6 amended: at SUMMARY, the output filename of a manifest position is
\* missing from the saved files iff the failed list names it or the position
\* never resolved to a URL; an unresolved position is never named in the
\* failed list, it is only counted by the unresolved-pages warning.
C6_SummaryNamesFailedJobs ==
    pc = "summary" =>
        /\ \A k \in 1..Len(allPids) :
              OutputFilename(k) \notin Range(saved)
                  <=> \/ OutputFilename(k) \in Range(console.summary[1].failed)
                      \/ k \in UnresolvedPositions
        /\ \A k \in UnresolvedPositions :
              OutputFilename(k) \notin Range(console.summary[1].failed)
        /\ UnresolvedPositions # {} =>
              console.unresolved =
                  <<Len(allPids) - Cardinality(UnresolvedPositions), Len(allPids)>>

\* three pages: one never resolved, one failed to download, one saved
C6_Witness ==
    /\ pc = "summary"
    /\ Len(allPids) = 3
    /\ Cardinality(UnresolvedPositions) = 1
    /\ Len(console.summary[1].failed) = 1
    /\ Len(saved) = 1

(* ------------------------------- C7 ------------------------------------- *)

\* the number of decimal digits of n >= 1, counted by powers of ten
DigitCount(n) == CHOOSE d \in 1..4 : 10 ^ (d - 1) <= n /\ n < 10 ^ d

\* the manifest positions that have a URL, ascending
ResolvedPositions ==
    SelectSeq([k \in 1..Len(allPids) |-> k],
              LAMBDA k : allPids[k] \in DOMAIN signedUrlMap)

\* C7: zero-padding. Once the jobs are built, every job's numeric suffix has
\* as many digits as the manifest length N, and comparing two suffixes as
\* strings orders them as their manifest positions compare as numbers.
C7_ZeroPadding ==
    pc = "retrieve" =>
        LET positions == ResolvedPositions
            width == DigitCount(Len(allPids))
        IN  /\ Len(downloadJobs) = Len(positions)
            /\ \A a \in 1..Len(downloadJobs) :
                  Len(downloadJobs[a].filename.pageNumber) = width
            /\ \A a, b \in 1..Len(downloadJobs) :
                  LexLess(downloadJobs[a].filename.pageNumber,
                          downloadJobs[b].filename.pageNumber)
                      <=> positions[a] < positions[b]

\* a 150-page document, all resolved: page 2 is "002", page 10 is "010"
C7_Witness ==
    /\ pc = "retrieve"
    /\ Len(allPids) = 150
    /\ Len(downloadJobs) = 150
    /\ downloadJobs[2].filename.pageNumber = <<0, 0, 2>>
    /\ downloadJobs[10].filename.pageNumber = <<0, 1, 0>>

(* ------------------------------- C8 ------------------------------------- *)

\* C8: job building keeps manifest positions. Once the jobs are built, the
\* job list holds, in manifest order, one job per manifest position whose
\* identifier has a URL; the job carries that URL and the prefix, its page
\* number denotes the 1-based manifest position, and the positions dropped
\* number manifest length minus job count, which the warning reports.
C8_JobsKeepManifestPositions ==
    pc = "retrieve" =>
        LET positions == ResolvedPositions
            dropped == UnresolvedPositions
        IN  /\ Len(downloadJobs) = Len(positions)
            /\ \A a \in 1..Len(downloadJobs) :
                  /\ FromDigits(downloadJobs[a].filename.pageNumber) = positions[a]
                  /\ downloadJobs[a].url = signedUrlMap[allPids[positions[a]]]
                  /\ downloadJobs[a].filename.prefix = prefix
            /\ Cardinality(dropped) = Len(allPids) - Len(downloadJobs)
            /\ dropped # {} =>
                  console.unresolved = <<Len(downloadJobs), Len(allPids)>>
            /\ dropped = {} => console.unresolved = <<>>

\* scenario B of the spec: 12 identifiers, 10 resolved, pages 6 and 12 dropped
C8_Witness ==
    /\ pc = "retrieve"
    /\ Len(allPids) = 12
    /\ Len(downloadJobs) = 10
    /\ UnresolvedPositions = {6, 12}
    /\ console.unresolved = <<10, 12>>
    /\ downloadJobs[6].filename.pageNumber = <<0, 7>>
    /\ downloadJobs[10].filename.pageNumber = <<1, 1>>

(* ------------------------------- C9 ------------------------------------- *)

\* the manifest position a job was built for, read back from its filename
ManifestPosition(a) == FromDigits(downloadJobs[a].filename.pageNumber)

\* C9: phase ordering. Every batch query is issued after the manifest fetch
\* completed; batch queries are issued in increasing manifest position; every
\* batch query was issued and completed before any download starts; and
\* downloads start in increasing manifest position.
C9_PhaseOrdering ==
    /\ \A b \in EventsOf("issue", "batch") :
          \E m \in EventsOf("done", "manifest") : m < b
    /\ \A b, c \in EventsOf("issue", "batch") :
          b < c => trace[b].pos < trace[c].pos
    /\ \A d \in EventsOf("issue", "download") :
          \A b \in EventsOf("issue", "batch") :
              \E e \in EventsOf("done", "batch") :
                  b < e /\ e < d /\ trace[e].pos = trace[b].pos
    /\ \A d, e \in EventsOf("issue", "download") :
          d < e => ManifestPosition(trace[d].pos) < ManifestPosition(trace[e].pos)

\* two batch queries were issued and two downloads started, with a gap: the
\* second job is the page at manifest position 3
C9_Witness ==
    /\ Cardinality(EventsOf("issue", "batch")) >= 2
    /\ Cardinality(EventsOf("issue", "download")) = 2
    /\ ManifestPosition(2) = 3

(* ------------------------------- C10 ------------------------------------ *)

\* C10: strictly sequential access. At most one network request is
\* outstanding, and while a request is outstanding no delay timer started by
\* the pipeline is pending (no request is issued before the delay elapsed).
C10_StrictlySequential ==
    /\ Len(inflight) <= 1
    /\ inflight # <<>> => timers = <<>>

\* a download is outstanding after both kinds of delay have been waited
C10_Witness ==
    /\ pc = "download_wait"
    /\ Len(inflight) = 1
    /\ API_REQUEST_DELAY_MS \in Range(delaysWaited)
    /\ DOWNLOAD_DELAY_MS \in Range(delaysWaited)

(* ------------------------------- C11 ------------------------------------ *)

\* how often a delay of d milliseconds has been waited
DelaysOf(d) == Cardinality({k \in 1..Len(delaysWaited) : delaysWaited[k] = d})

\* C11: discovery rate limiting. At every loop head the API delays waited
\* number the batch queries issued, all of which have returned, and every
\* position examined so far was either skipped without a delay or queried
\* with one; while a query is outstanding, or its delay is pending, or it
\* has failed, exactly that one query has had no delay yet; after the loop
\* the count no longer changes.
C11_DiscoveryRateLimiting ==
    LET issued == Cardinality(EventsOf("issue", "batch"))
        done == Cardinality(EventsOf("done", "batch"))
        delays == DelaysOf(API_REQUEST_DELAY_MS)
    IN  /\ pc = "resolve" =>
              delays = issued /\ done = issued /\ i = delays + Cardinality(skipped)
        /\ pc = "batch_wait" => delays = issued - 1 /\ done = issued - 1 /\ timers = <<>>
        /\ pc = "api_delay" =>
              delays = issued - 1 /\ done = issued /\ timers = <<API_REQUEST_DELAY_MS>>
        /\ (pc = "aborted" /\ issued > 0) => delays = issued - 1 /\ done = issued
        /\ pc \in {"build", "retrieve", "download_wait", "download_delay", "summary"} =>
              delays = issued /\ done = issued
                  /\ Len(allPids) = delays + Cardinality(skipped)
        /\ \A x \in EventsOf("issue", "batch") : trace[x].pos \notin skipped

\* three pages: the first and third queried and delayed, the second skipped
C11_Witness ==
    /\ pc = "build"
    /\ Len(allPids) = 3
    /\ skipped = {2}
    /\ delaysWaited = <<API_REQUEST_DELAY_MS, API_REQUEST_DELAY_MS>>

(* ------------------------------- C12 ------------------------------------ *)

\* C12: retrieval rate limiting. At the head of the download loop one
\* download delay has been waited per attempt made, failed or not; while a
\* download is outstanding the previous attempts have all had their delay;
\* after an attempt exactly its delay is pending; download delays come
\* after all API delays.
C12_RetrievalRateLimiting ==
    LET attempts == Len(outcomes)
        delays == DelaysOf(DOWNLOAD_DELAY_MS)
    IN  /\ pc = "retrieve" => delays = attempts /\ i = attempts /\ timers = <<>>
        /\ pc = "download_wait" =>
              delays = attempts
                  /\ Cardinality(EventsOf("issue", "download")) = attempts + 1
                  /\ timers = <<>>
        /\ pc = "download_delay" =>
              delays = attempts - 1 /\ timers = <<DOWNLOAD_DELAY_MS>>
        /\ pc = "summary" => delays = Len(downloadJobs) /\ attempts = Len(downloadJobs)
        /\ \A k, l \in 1..Len(delaysWaited) :
              (delaysWaited[k] = DOWNLOAD_DELAY_MS /\ delaysWaited[l] = API_REQUEST_DELAY_MS)
                  => l < k

\* the second download is outstanding after the first failed and its delay
\* was waited
C12_Witness ==
    /\ pc = "download_wait"
    /\ outcomes = <<FALSE>>
    /\ DelaysOf(DOWNLOAD_DELAY_MS) = 1

(* ------------------------------- C13 ------------------------------------ *)

\* C13: missing document id. When BOOK_ID is null or empty no request is
\* ever issued, no job is built, no summary is reported: main stops at the
\* precondition check.
C13_MissingDocumentId ==
    bookId \in {NullId, ""} =>
        /\ trace = <<>>
        /\ inflight = <<>>
        /\ downloadJobs = <<>>
        /\ allPids = <<>>
        /\ console.summary = <<>>
        /\ pc \in {"script", "main", "stopped", "crashed"}

\* main has stopped at the check, the id parameter being present but empty
C13_Witness ==
    /\ pc = "stopped"
    /\ bookId = ""
    /\ console.precondition

(* ------------------------------- C14 ------------------------------------ *)

\* C14: filename-prefix fallback. When the page has no title element, setup
\* completes with the prefix "Book" and main is entered.
C14_PrefixFallback ==
    (titleElement = NoTitle /\ pc # "script") =>
        (prefix = DefaultPrefix /\ pc # "crashed")

(* ------------------------------- C15 ------------------------------------ *)

\* what the abort decision was for the response last received
C15_ListVerdict ==
    /\ received.from = "manifest" =>
          /\ pc = "aborted" <=> received.list \in {"failed", "absent", "empty"}
          /\ received.list = "nonempty" => allPids # <<>>
    /\ received.from = "batch" =>
          /\ pc = "aborted" <=> received.list \in {"failed", "absent"}
          /\ received.list \in {"empty", "nonempty"} => pc = "api_delay"

\* what receiving an empty batch list does, and what follows it
C15_EmptyBatchStep ==
    /\ (pc = "batch_wait" /\ received'.from = "batch" /\ received'.list = "empty")
          => (signedUrlMap' = signedUrlMap /\ pc' = "api_delay" /\ i' = i)
    /\ (pc = "api_delay" /\ received.list = "empty")
          => (pc' = "resolve" /\ i' = i + 1 /\ signedUrlMap' = signedUrlMap)

\* C15: empty versus absent page list. A manifest response aborts the run
\* exactly when its page list is absent or empty (or the response failed); a
\* batch response aborts it exactly when its list is absent (or the response
\* failed); an empty batch list leaves the mapping as it was and the loop
\* goes on to the next identifier after the delay.
C15_EmptyVersusAbsent == []C15_ListVerdict /\ [][C15_EmptyBatchStep]_vars

\* an empty batch list has been received while the mapping already holds a
\* URL from an earlier query, and the loop is about to go on
C15_Witness ==
    /\ pc = "api_delay"
    /\ received.from = "batch"
    /\ received.list = "empty"
    /\ signedUrlMap # EmptyMap

(* ------------------------------- C16 ------------------------------------ *)

\* C16: unresolved-pages warning. At SUMMARY the warning has been reported
\* iff fewer jobs were built than the manifest has pages, and it then states
\* both numbers.
C16_UnresolvedWarning ==
    pc = "summary" =>
        /\ console.unresolved # <<>> <=> Len(downloadJobs) < Len(allPids)
        /\ console.unresolved # <<>> =>
              console.unresolved = <<Len(downloadJobs), Len(allPids)>>

\* a run ended with two jobs for three pages and the warning reported
C16_Witness ==
    /\ pc = "summary"
    /\ Len(allPids) = 3
    /\ Len(downloadJobs) = 2
    /\ console.unresolved = <<2, 3>>

(* ------------------------------- C17 ------------------------------------ *)

\* the phases in which the job list has been built
Built == pc \in {"retrieve", "download_wait", "download_delay", "summary"}

\* the batch queries issued for identifier p, as positions of the trace
QueriesFor(p) ==
    {x \in EventsOf("issue", "batch") : allPids[trace[x].pos] = p}

\* the response to the query issued at trace position x held the queried
\* identifier with a URL
Resolved(x) ==
    \E y \in EventsOf("done", "batch") : trace[y].pos = trace[x].pos /\ trace[y].hit

\* C17: duplicate identifiers in the manifest. Once the jobs are built, an
\* identifier with a URL that stands at two manifest positions has two jobs,
\* named after the two positions and carrying the same URL; all job
\* filenames are pairwise distinct; and an identifier whose first query
\* resolved it has been queried once only.
C17_DuplicateIdentifiers ==
    /\ Built =>
          LET name == [k \in 1..Len(allPids) |-> OutputFilename(k)]
          IN  /\ \A a, b \in 1..Len(allPids) :
                    (a < b /\ allPids[a] = allPids[b]
                           /\ MapHas(signedUrlMap, allPids[a])) =>
                        \E x, y \in 1..Len(downloadJobs) :
                            /\ x < y
                            /\ downloadJobs[x].filename = name[a]
                            /\ downloadJobs[y].filename = name[b]
                            /\ downloadJobs[x].filename # downloadJobs[y].filename
                            /\ downloadJobs[x].url = signedUrlMap[allPids[a]]
                            /\ downloadJobs[y].url = downloadJobs[x].url
              /\ \A x, y \in 1..Len(downloadJobs) :
                    x # y => downloadJobs[x].filename # downloadJobs[y].filename
    /\ \A p \in ManifestPids :
          LET queries == QueriesFor(p)
          IN  (queries # {} /\ Resolved(CHOOSE x \in queries : \A y \in queries : x <= y))
                  => Cardinality(queries) = 1

\* the first two pages have the same identifier: one query, the second
\* position skipped, two jobs
C17_Witness ==
    /\ Built
    /\ Len(allPids) >= 2
    /\ allPids[1] = allPids[2]
    /\ 2 \in skipped
    /\ Len(downloadJobs) >= 2
    /\ downloadJobs[1].url = downloadJobs[2].url
    /\ Cardinality(QueriesFor(allPids[1])) = 1

(* ------------------------------- C18 ------------------------------------ *)

\* manifest positions that have no job
DroppedPositions ==
    LET names == {downloadJobs[a].filename : a \in 1..Len(downloadJobs)}
    IN  {k \in 1..Len(allPids) : OutputFilename(k) \notin names}

\* C18: the mapping holds only usable URLs. Every key of the mapping is an
\* identifier and its value a non-empty URL; so, once the jobs are built, the
\* positions without a job are exactly those whose identifier is not a key
\* (the ones the loop's skip test would not skip).
C18_OnlyUsableUrls ==
    /\ \A p \in DOMAIN signedUrlMap :
          /\ p # NoPid
          /\ ~Falsy(MapGet(signedUrlMap, p))
          /\ MapGet(signedUrlMap, p) \in Urls
    /\ Built =>
          LET dropped == DroppedPositions
          IN  \A k \in 1..Len(allPids) :
                  k \in dropped <=> ~MapHas(signedUrlMap, allPids[k])

\* a batch list with a descriptor lacking its pid or its src has just been
\* merged, and the mapping holds a URL
C18_Witness ==
    /\ pc = "api_delay"
    /\ received.from = "batch"
    /\ received.ignored > 0
    /\ signedUrlMap # EmptyMap

(* ------------------------------- C19 ------------------------------------ *)

\* the outcomes the specification names as terminal
Terminal == pc \in {"stopped", "aborted", "summary"}

\* at most N batch queries and N downloads, at most one query per position
C19_BoundedWork ==
    /\ Cardinality(EventsOf("issue", "batch")) <= Len(allPids)
    /\ Cardinality(EventsOf("issue", "download")) <= Len(allPids)
    /\ Cardinality(EventsOf("issue", "manifest")) <= 1
    /\ \A x, y \in EventsOf("issue", "batch") : trace[x].pos = trace[y].pos => x = y
    /\ \A x, y \in EventsOf("issue", "download") : trace[x].pos = trace[y].pos => x = y

\* C19: bounded work and termination. The work is bounded by the manifest
\* length, and a run stops only in one of the terminal outcomes: wherever
\* it has not reached one, it has a next step.
C19_BoundedWorkAndTermination ==
    /\ C19_BoundedWork
    /\ (~Terminal) => ENABLED Next

(* ------------------------------- C20 ------------------------------------ *)

\* every batch response so far held the queried identifier with a URL
WellBehaved == \A x \in EventsOf("done", "batch") : trace[x].hit

\* C20: full coverage under a well-behaved provider. If every batch response
\* held the queried identifier with a URL, then when the loop has finished
\* every manifest identifier is a key of the mapping and no more queries
\* were issued than the manifest has distinct identifiers; the jobs built
\* then are one per manifest position and no warning is reported.
C20_FullCoverage ==
    ((pc = "build" \/ Built) /\ WellBehaved) =>
        /\ ManifestPids \subseteq DOMAIN signedUrlMap
        /\ UnresolvedPositions = {}
        /\ Cardinality(EventsOf("issue", "batch")) <= Cardinality(ManifestPids)
        /\ Built =>
              /\ Len(downloadJobs) = Len(allPids)
              /\ \A k \in 1..Len(allPids) : downloadJobs[k].filename = OutputFilename(k)
              /\ console.unresolved = <<>>

\* three pages, the first response also resolving the second page: two
\* queries, three jobs
C20_Witness ==
    /\ pc = "retrieve"
    /\ Len(allPids) = 3
    /\ Cardinality(ManifestPids) = 3
    /\ WellBehaved
    /\ skipped = {2}
    /\ Cardinality(EventsOf("issue", "batch")) = 2
    /\ Len(downloadJobs) = 3

=============================================================================
